---- MODULE Spec2Model ----
(***************************************************************************)
(* A model of src/app.py: the JSONFormGenerator class (schema-driven form, *)
(* regex validation, history file append/delete, remote submission) and    *)
(* the script that constructs it and calls run() once per script run.      *)
(*                                                                         *)
(* Python strings are sequences of one-character strings.  Python values   *)
(* are tagged records [k, v]; JSON documents are tagged records [t, v].    *)
(***************************************************************************)
EXTENDS Integers, Sequences, FiniteSets, TLC

VARIABLES
    procs,      \* the sessions running the script against the same history file
    schema,     \* self.schema: sequence of [campo, opciones], in declaration order
    file,       \* the history file: [st, doc]
    pc,         \* pc[p]: position of session p in its script run
    widgets,    \* widgets[p]: the values the form widgets return, keyed by campo
    click,      \* click[p]: the button/form state of this run: [b, k, url]
    data,       \* data[p]: self.data
    errores,    \* errores[p]: self.errores
    historial,  \* historial[p]: the local list of guardar/eliminar/mostrar
    index,      \* index[p]: the argument of eliminar_entrada_historial
    out,        \* out[p]: the st.* messages emitted by the current run
    posts       \* posts[p]: the POST requests issued by the current run

vars == <<procs, schema, file, pc, widgets, click, data, errores, historial,
          index, out, posts>>

(***************************************************************************)
(* Bounds of the model.                                                    *)
(***************************************************************************)
MaxHist == 2    \* the history file holds at most this many entries
MaxLen == 3     \* longest comma-separated text typed into a list field

(***************************************************************************)
(* Program constants.                                                      *)
(***************************************************************************)
DefaultMin == 0
DefaultMax == 100
StatusOK == 200

(***************************************************************************)
(* Python values and dictionaries.                                         *)
(***************************************************************************)
PyStr(s) == [k |-> "str", v |-> s]
PyInt(n) == [k |-> "int", v |-> n]
PyBool(b) == [k |-> "bool", v |-> b]
PyList(l) == [k |-> "list", v |-> l]

EmptyDict == [x \in {} |-> PyInt(0)]

\* d[key] = val
Put(d, key, val) ==
    [x \in DOMAIN d \cup {key} |-> IF x = key THEN val ELSE d[x]]

\* d.get(key, default)
Get(d, key, default) == IF key \in DOMAIN d THEN d[key] ELSE default

(***************************************************************************)
(* json.dump / json.load on the values a Submission holds.                 *)
(***************************************************************************)
JsonDumpValue(x) ==
    CASE x.k = "str"  -> [t |-> "string", v |-> x.v]
      [] x.k = "int"  -> [t |-> "number", v |-> x.v]
      [] x.k = "bool" -> [t |-> IF x.v THEN "true" ELSE "false", v |-> <<>>]
      [] x.k = "list" -> [t |-> "array",
                          v |-> [i \in DOMAIN x.v |-> [t |-> "string", v |-> x.v[i]]]]

JsonDumpDict(d) == [t |-> "object", v |-> [f \in DOMAIN d |-> JsonDumpValue(d[f])]]

\* json.dump(historial, f, indent=2, ensure_ascii=False): a list of dicts
JsonDump(h) == [t |-> "array", v |-> [i \in DOMAIN h |-> JsonDumpDict(h[i])]]

JsonLoadValue(j) ==
    CASE j.t = "string" -> PyStr(j.v)
      [] j.t = "number" -> PyInt(j.v)
      [] j.t = "true"   -> PyBool(TRUE)
      [] j.t = "false"  -> PyBool(FALSE)
      [] j.t = "array"  -> PyList([i \in DOMAIN j.v |-> j.v[i].v])

JsonLoadDict(j) == [f \in DOMAIN j.v |-> JsonLoadValue(j.v[f])]

\* json.load(f) on a document holding an array of objects
JsonLoad(j) == [i \in DOMAIN j.v |-> JsonLoadDict(j.v[i])]

(***************************************************************************)
(* re.fullmatch(regex, valor).  A regex is a sequence of items             *)
(* [cls, rep]: a character class repeated "1", "+" or "*" times.           *)
(* ReMatch(re, i, s, j, anchored): items i.. of re match s from j on;      *)
(* anchored demands that the match ends at the end of s.                   *)
(***************************************************************************)
RECURSIVE ReMatch(_, _, _, _, _)
ReMatch(re, i, s, j, anchored) ==
    IF i > Len(re)
    THEN (~anchored) \/ j > Len(s)
    ELSE LET here == j <= Len(s) /\ s[j] \in re[i].cls
         IN CASE re[i].rep = "1" -> here /\ ReMatch(re, i + 1, s, j + 1, anchored)
              [] re[i].rep = "+" ->
                   here /\ (\/ ReMatch(re, i + 1, s, j + 1, anchored)
                            \/ ReMatch(re, i, s, j + 1, anchored))
              [] re[i].rep = "*" ->
                   \/ ReMatch(re, i + 1, s, j, anchored)
                   \/ here /\ ReMatch([re EXCEPT ![i].rep = "+"], i, s, j, anchored)

\* variant: re.match, anchored at the start only
PrefixMatch(regex, valor) == ReMatch(regex, 1, valor, 1, FALSE)

fullmatch(regex, valor) == ReMatch(regex, 1, valor, 1, TRUE)

(***************************************************************************)
(* validar_regex(campo, valor, regex): the error dictionary it leaves.     *)
(***************************************************************************)
Mensaje(campo) == <<"Formato invalido para", campo>>

validar_regex(e, campo, valor, regex) ==
    IF ~fullmatch(regex, valor) THEN Put(e, campo, Mensaje(campo)) ELSE e

(***************************************************************************)
(* texto.split(","), i.strip(), and the list comprehension of render_form. *)
(***************************************************************************)
Whitespace == {" "}

RECURSIVE split(_, _)
\* s.split(sep): the segments between separators, empty ones included
split(s, sep) ==
    IF \A i \in DOMAIN s : s[i] # sep
    THEN <<s>>
    ELSE LET c == CHOOSE i \in DOMAIN s : s[i] = sep /\ \A m \in 1..(i - 1) : s[m] # sep
         IN <<SubSeq(s, 1, c - 1)>> \o split(SubSeq(s, c + 1, Len(s)), sep)

RECURSIVE lstrip(_)
lstrip(s) == IF s # <<>> /\ Head(s) \in Whitespace THEN lstrip(Tail(s)) ELSE s

RECURSIVE rstrip(_)
rstrip(s) ==
    IF s # <<>> /\ s[Len(s)] \in Whitespace THEN rstrip(SubSeq(s, 1, Len(s) - 1)) ELSE s

strip(s) == rstrip(lstrip(s))

\* variant: the filter "if i"
KeepRaw(seg) == seg # <<>>

\* the filter "if i.strip()" of the comprehension
Keep(seg) == strip(seg) # <<>>

RECURSIVE Comprehension(_)
\* [i.strip() for i in segs if i.strip()]
Comprehension(segs) ==
    IF segs = <<>> THEN <<>>
    ELSE (IF Keep(Head(segs)) THEN <<strip(Head(segs))>> ELSE <<>>)
         \o Comprehension(Tail(segs))

ParseLista(texto) == Comprehension(split(texto, ","))

(***************************************************************************)
(* Schemas (the content of the schema file read by load_schema) and the    *)
(* values the widgets of a schema can return.                              *)
(***************************************************************************)
Letras == [cls |-> {"a", "b", "c"}, rep |-> "+"]

Digito == [cls |-> {"1"}, rep |-> "1"]

LetrasOpc == [cls |-> {"a", "b", "c"}, rep |-> "*"]

Campo(campo, opciones) == [campo |-> campo, opciones |-> opciones]

EsquemaFormulario ==
    << Campo("nombre", [tipo |-> "texto", regex |-> <<Letras>>]),
       Campo("apodo", [tipo |-> "texto"]),
       Campo("codigo", [tipo |-> "texto", regex |-> <<Digito, LetrasOpc>>]),
       Campo("edad", [tipo |-> "numero", max |-> 1]),
       Campo("fecha", [tipo |-> "fecha"]),
       Campo("activo", [tipo |-> "booleano"]) >>

EsquemaLista == << Campo("tags", [tipo |-> "lista"]) >>

EsquemaApp ==
    << Campo("nombre", [tipo |-> "texto", regex |-> <<Letras>>]),
       Campo("fecha", [tipo |-> "fecha"]),
       Campo("edad", [tipo |-> "numero", min |-> 1, max |-> 2]),
       Campo("activo", [tipo |-> "booleano"]) >>

EsquemaMinimo == << Campo("activo", [tipo |-> "booleano"]) >>

\* texts typed into a text field
Texts == {<<>>, <<"a">>, <<"1">>, <<"a", "1">>}

ListChars == {"a", "b", ",", " "}

Ejemplo == <<"a", ",", " ", "b", ",", ",", "c", " ">>

RECURSIVE Strings(_)
\* every text of at most n characters of ListChars
Strings(n) ==
    IF n = 0 THEN {<<>>}
    ELSE LET shorter == Strings(n - 1)
         IN shorter \cup {Append(s, c) : s \in shorter, c \in ListChars}

\* texts typed into a list field
ListTexts == Strings(MaxLen) \cup {Ejemplo}

Tipos == {"texto", "numero", "booleano", "lista"}

\* what the widget of a field can return
Inputs(opciones) ==
    CASE opciones.tipo = "texto"    -> {PyStr(t) : t \in Texts}
      [] opciones.tipo = "numero"   ->
           {PyInt(n) : n \in Get(opciones, "min", DefaultMin)..Get(opciones, "max", DefaultMax)}
      [] opciones.tipo = "booleano" -> {PyBool(b) : b \in BOOLEAN}
      [] opciones.tipo = "lista"    -> {PyStr(t) : t \in ListTexts}
      [] OTHER -> {}

RECURSIVE WidgetsUpTo(_, _)
\* every assignment of widget values to the recognised fields 1..i of sch
WidgetsUpTo(sch, i) ==
    IF i = 0 THEN {EmptyDict}
    ELSE IF sch[i].opciones.tipo \in Tipos
    THEN {Put(w, sch[i].campo, x) : w \in WidgetsUpTo(sch, i - 1),
                                   x \in Inputs(sch[i].opciones)}
    ELSE WidgetsUpTo(sch, i - 1)

\* every assignment of widget values a user can set up for a schema
WidgetStates(sch) == WidgetsUpTo(sch, Len(sch))

(***************************************************************************)
(* render_form: the loop over the schema, from field i on, with the        *)
(* dictionaries d (self.data), e (self.errores) and the warnings o so far. *)
(***************************************************************************)
RECURSIVE RenderFields(_, _, _, _, _, _)
RenderFields(sch, i, w, d, e, o) ==
    IF i > Len(sch)
    THEN [data |-> d, errores |-> e, out |-> o]
    ELSE LET campo == sch[i].campo
             opciones == sch[i].opciones
             tipo == opciones.tipo
             regex == Get(opciones, "regex", <<>>)
         IN CASE tipo = "texto" ->
                   LET valor == w[campo].v
                       e2 == IF valor # <<>> /\ regex # <<>>
                             THEN validar_regex(e, campo, valor, regex)
                             ELSE e
                   IN RenderFields(sch, i + 1, w, Put(d, campo, PyStr(valor)), e2, o)
              [] tipo = "numero" ->
                   RenderFields(sch, i + 1, w, Put(d, campo, PyInt(w[campo].v)), e, o)
              [] tipo = "booleano" ->
                   RenderFields(sch, i + 1, w, Put(d, campo, PyBool(w[campo].v)), e, o)
              [] tipo = "lista" ->
                   RenderFields(sch, i + 1, w,
                                Put(d, campo, PyList(ParseLista(w[campo].v))), e, o)
              [] OTHER ->
                   RenderFields(sch, i + 1, w, d, e, o \cup {"warning_tipo"})

(***************************************************************************)
(* The buttons and the URL form of render_output / mostrar_historial.      *)
(***************************************************************************)
Urls == {<<>>, <<"u">>}

NoClick == [b |-> "none", k |-> 0, url |-> <<>>]

Clicks ==
    {NoClick, [b |-> "save", k |-> 0, url |-> <<>>]}
    \cup {[b |-> "send", k |-> 0, url |-> u] : u \in Urls}
    \cup {[b |-> "del", k |-> i, url |-> <<>>] : i \in 0..(MaxHist - 1)}

\* what requests.post can do: raise, or return a status code
Responses ==
    {[exc |-> TRUE, status |-> 0]}
    \cup {[exc |-> FALSE, status |-> c] : c \in {StatusOK, 201, 500}}

(***************************************************************************)
(* The script: app = JSONFormGenerator("esquema.json"); app.run()          *)
(***************************************************************************)
\* JSONFormGenerator.__init__, at the start of a script run
Construct(p) ==
    /\ pc[p] = "idle"
    /\ data' = [data EXCEPT ![p] = EmptyDict]
    /\ errores' = [errores EXCEPT ![p] = EmptyDict]
    /\ widgets' = [widgets EXCEPT ![p] = EmptyDict]
    /\ click' = [click EXCEPT ![p] = NoClick]
    /\ historial' = [historial EXCEPT ![p] = <<>>]
    /\ index' = [index EXCEPT ![p] = 0]
    /\ out' = [out EXCEPT ![p] = {}]
    /\ posts' = [posts EXCEPT ![p] = <<>>]
    /\ pc' = [pc EXCEPT ![p] = "new"]
    /\ UNCHANGED <<procs, schema, file>>

\* the body of render_form: the widgets return w, the loop fills the
\* dictionaries of the generator
RenderPass(p) ==
    \E w \in WidgetStates(schema) :
       LET r == RenderFields(schema, 1, w, data[p], errores[p], {})
       IN /\ widgets' = [widgets EXCEPT ![p] = w]
          /\ data' = [data EXCEPT ![p] = r.data]
          /\ errores' = [errores EXCEPT ![p] = r.errores]
          /\ out' = [out EXCEPT ![p] = r.out]

\* render_form, called by run() on the generator the script constructed
render_form(p) ==
    /\ pc[p] = "new"
    /\ RenderPass(p)
    /\ pc' = [pc EXCEPT ![p] = "form"]
    /\ UNCHANGED <<procs, schema, file, click, historial, index, posts>>

\* render_form called again on the same generator (a second render pass)
render_form_again(p) ==
    /\ pc[p] = "form"
    /\ RenderPass(p)
    /\ UNCHANGED <<procs, schema, file, pc, click, historial, index, posts>>

(***************************************************************************)
(* The history file.  st is "missing" (no file), "corrupt" (content that   *)
(* json.load rejects) or "json" (doc is the stored array).                 *)
(***************************************************************************)
Missing == [st |-> "missing", doc |-> JsonDump(<<>>)]

Corrupt == [st |-> "corrupt", doc |-> JsonDump(<<>>)]

\* with open(path, "w") as f: json.dump(h, f, ...)
Written(h) == [st |-> "json", doc |-> JsonDump(h)]

\* variant: json.load outside any try
leer_sin_try(f) ==
    IF f.st = "json" THEN [exc |-> FALSE, log |-> JsonLoad(f.doc)]
    ELSE [exc |-> f.st = "corrupt", log |-> <<>>]

\* variant: the file is never read
leer_nada(f) == [exc |-> FALSE, log |-> <<>>]

\* the read of guardar_historial: [exc, log]; a decode error is swallowed
leer_guardar(f) ==
    IF f.st = "json" THEN [exc |-> FALSE, log |-> JsonLoad(f.doc)]
    ELSE [exc |-> FALSE, log |-> <<>>]

\* the read of mostrar_historial: a decode error gives the empty list
leer_mostrar(f) ==
    IF f.st = "json" THEN [exc |-> FALSE, log |-> JsonLoad(f.doc)]
    ELSE [exc |-> FALSE, log |-> <<>>]

\* the read of eliminar_entrada_historial (the file exists): json.load
\* outside any try
leer_eliminar(f) ==
    IF f.st = "json" THEN [exc |-> FALSE, log |-> JsonLoad(f.doc)]
    ELSE [exc |-> TRUE, log |-> <<>>]

\* variant: historial.insert(0, self.data)
AgregarAlInicio(h, d) == <<d>> \o h

\* historial.append(self.data)
Agregar(h, d) == Append(h, d)

\* variant: index < len(historial), the lower bound forgotten
SoloTope(i, h) == i < Len(h)

\* 0 <= index < len(historial)
EnRango(i, h) == 0 <= i /\ i < Len(h)

\* del historial[i], for i within -len..len-1
DelItem(h, i) ==
    LET j == IF i < 0 THEN i + Len(h) ELSE i
    IN SubSeq(h, 1, j) \o SubSeq(h, j + 2, Len(h))

\* variant: the else branch taken whatever the errors
SiempreValido(e) == TRUE

\* if self.errores: ... else: ...
Valido(e) == e = EmptyDict

\* variant: response.ok
ExitoOk(status) == status < 400

\* response.status_code == 200
Exito(status) == status = StatusOK

Emit(p, msgs) == [out EXCEPT ![p] = @ \cup msgs]

(***************************************************************************)
(* render_output.  The buttons return c.  With errors it lists them; else  *)
(* it shows the JSON and, by the button clicked, starts guardar_historial  *)
(* (its read), or goes on to the download button and the URL form.         *)
(***************************************************************************)
\* the URL form of render_output, with the POST and its report
Enviar(p, c) ==
    IF c.b = "send"
    THEN IF c.url # <<>>
         THEN \E r \in Responses :
                 /\ posts' = [posts EXCEPT ![p] =
                       <<[url |-> c.url, body |-> JsonDumpDict(data[p]), resp |-> r]>>]
                 /\ out' = Emit(p, {"success_json", "download",
                                    IF r.exc THEN "error_fallo"
                                    ELSE IF Exito(r.status) THEN "success_enviado"
                                    ELSE "warning_codigo"})
         ELSE /\ posts' = posts
              /\ out' = Emit(p, {"success_json", "download", "warning_url"})
    ELSE /\ posts' = posts
         /\ out' = Emit(p, {"success_json", "download"})

render_output(p) ==
    /\ pc[p] = "form"
    /\ \E c \in Clicks :
          /\ click' = [click EXCEPT ![p] = c]
          /\ IF ~Valido(errores[p])
             THEN /\ out' = Emit(p, {"error_errores"})
                  /\ pc' = [pc EXCEPT ![p] = "output"]
                  /\ UNCHANGED <<historial, posts>>
             ELSE IF c.b = "save"
             THEN LET r == leer_guardar(file)
                  IN /\ Len(r.log) < MaxHist
                     /\ historial' = [historial EXCEPT ![p] = r.log]
                     /\ out' = Emit(p, {"success_json"} \cup
                                       (IF r.exc THEN {"exception"} ELSE {}))
                     /\ pc' = [pc EXCEPT ![p] = IF r.exc THEN "idle" ELSE "guardar"]
                     /\ UNCHANGED posts
             ELSE /\ Enviar(p, c)
                  /\ pc' = [pc EXCEPT ![p] = "output"]
                  /\ UNCHANGED historial
    /\ UNCHANGED <<procs, schema, file, widgets, data, errores, index>>

\* the rest of guardar_historial (append, write) and of render_output
guardar_historial(p) ==
    /\ pc[p] = "guardar"
    /\ historial' = [historial EXCEPT ![p] = Agregar(@, data[p])]
    /\ file' = Written(Agregar(historial[p], data[p]))
    /\ out' = Emit(p, {"success_guardado", "download"})
    /\ pc' = [pc EXCEPT ![p] = "output"]
    /\ UNCHANGED <<procs, schema, widgets, click, data, errores, index, posts>>

(***************************************************************************)
(* The end of a script run: the generator and the frames of its calls are  *)
(* gone; what the run wrote on the page (out) stays until the next run.    *)
(***************************************************************************)
Fin(p) ==
    /\ pc' = [pc EXCEPT ![p] = "idle"]
    /\ widgets' = [widgets EXCEPT ![p] = EmptyDict]
    /\ click' = [click EXCEPT ![p] = NoClick]
    /\ data' = [data EXCEPT ![p] = EmptyDict]
    /\ errores' = [errores EXCEPT ![p] = EmptyDict]
    /\ historial' = [historial EXCEPT ![p] = <<>>]
    /\ index' = [index EXCEPT ![p] = 0]
    /\ posts' = [posts EXCEPT ![p] = <<>>]

(***************************************************************************)
(* mostrar_historial: reads the file and lists it, newest first; the       *)
(* delete button of entry click.k, when listed and clicked, calls          *)
(* eliminar_entrada_historial.                                             *)
(***************************************************************************)
mostrar_historial(p) ==
    /\ pc[p] = "output"
    /\ LET r == leer_mostrar(file)
       IN IF r.exc
          THEN out' = Emit(p, {"exception"}) /\ Fin(p)
          ELSE IF r.log = <<>>
          THEN out' = Emit(p, {"info_no_historial"}) /\ Fin(p)
          ELSE IF click[p].b = "del" /\ click[p].k < Len(r.log)
          THEN /\ index' = [index EXCEPT ![p] = click[p].k]
               /\ pc' = [pc EXCEPT ![p] = "eliminar_call"]
               /\ out' = Emit(p, {"expanders"})
               /\ UNCHANGED <<widgets, click, data, errores, historial, posts>>
          ELSE out' = Emit(p, {"expanders"}) /\ Fin(p)
    /\ UNCHANGED <<procs, schema, file>>

\* a caller other than mostrar_historial calls eliminar_entrada_historial(i)
llamar_eliminar(p) ==
    /\ pc[p] = "idle"
    /\ \E i \in (-1)..MaxHist : index' = [index EXCEPT ![p] = i]
    /\ out' = [out EXCEPT ![p] = {}]
    /\ pc' = [pc EXCEPT ![p] = "eliminar_call"]
    /\ UNCHANGED <<procs, schema, file, widgets, click, data, errores, historial, posts>>

\* eliminar_entrada_historial up to the range check: the file is read again
eliminar_entrada_historial(p) ==
    /\ pc[p] = "eliminar_call"
    /\ IF file.st = "missing"
       THEN out' = out /\ Fin(p)
       ELSE LET r == leer_eliminar(file)
            IN IF r.exc
               THEN out' = Emit(p, {"exception"}) /\ Fin(p)
               ELSE IF EnRango(index[p], r.log)
               THEN /\ historial' = [historial EXCEPT ![p] = r.log]
                    /\ pc' = [pc EXCEPT ![p] = "eliminar"]
                    /\ UNCHANGED <<out, widgets, click, data, errores, index, posts>>
               ELSE out' = out /\ Fin(p)
    /\ UNCHANGED <<procs, schema, file>>

\* the rest of eliminar_entrada_historial: del, write, st.experimental_rerun()
eliminar_entrada_historial_del(p) ==
    /\ pc[p] = "eliminar"
    /\ file' = Written(DelItem(historial[p], index[p]))
    /\ out' = Emit(p, {"rerun"})
    /\ Fin(p)
    /\ UNCHANGED <<procs, schema>>

InitLocals ==
    /\ pc = [p \in procs |-> "idle"]
    /\ widgets = [p \in procs |-> EmptyDict]
    /\ click = [p \in procs |-> NoClick]
    /\ data = [p \in procs |-> EmptyDict]
    /\ errores = [p \in procs |-> EmptyDict]
    /\ historial = [p \in procs |-> <<>>]
    /\ index = [p \in procs |-> 0]
    /\ out = [p \in procs |-> {}]
    /\ posts = [p \in procs |-> <<>>]

(***************************************************************************)
(* The application: one session with a form of four fields, or two         *)
(* sessions with a form of one boolean field, on a history file that is    *)
(* missing, corrupt or an empty array.                                     *)
(***************************************************************************)
Init ==
    /\ \E sc \in {[procs |-> {1}, schema |-> EsquemaApp],
                  [procs |-> {1, 2}, schema |-> EsquemaMinimo]} :
          /\ procs = sc.procs
          /\ schema = sc.schema
    /\ file \in {Missing, Corrupt, Written(<<>>)}
    /\ InitLocals

Next ==
    \/ \E p \in procs : Construct(p)
    \/ \E p \in procs : render_form(p)
    \/ \E p \in procs : render_output(p)
    \/ \E p \in procs : guardar_historial(p)
    \/ \E p \in procs : mostrar_historial(p)
    \/ \E p \in procs : llamar_eliminar(p)
    \/ \E p \in procs : eliminar_entrada_historial(p)
    \/ \E p \in procs : eliminar_entrada_historial_del(p)

Spec == Init /\ [][Next]_vars

(***************************************************************************)
(* The form engine alone: one generator, any schema, repeated passes.      *)
(***************************************************************************)
InitForm ==
    /\ procs = {1}
    /\ schema \in {EsquemaFormulario, EsquemaLista}
    /\ file = Missing
    /\ InitLocals

NextForm ==
    \/ \E p \in procs : Construct(p)
    \/ \E p \in procs : render_form(p)
    \/ \E p \in procs : render_form_again(p)

SpecForm == InitForm /\ [][NextForm]_vars

(***************************************************************************)
(* Definitions used to state the properties.                               *)
(***************************************************************************)
\* the options of a field of the schema
Opciones(sch, campo) == sch[CHOOSE i \in DOMAIN sch : sch[i].campo = campo].opciones

\* the fields of recognised kind
Reconocidos(sch) ==
    {sch[i].campo : i \in {m \in DOMAIN sch :
                              sch[m].opciones.tipo \in {"texto", "numero", "booleano", "lista"}}}

\* the log a read of the history file yields (a missing file: the empty log)
StoredLog(f) == IF f.st = "json" THEN JsonLoad(f.doc) ELSE <<>>

\* v belongs to the language of re: v splits into consecutive blocks, one
\* per item, block i made of characters of the item's class and of a
\* length the item's repetition allows
InLanguage(re, v) ==
    \E b \in [0..Len(re) -> 0..Len(v)] :
       /\ b[0] = 0
       /\ b[Len(re)] = Len(v)
       /\ \A i \in 1..Len(re) :
             /\ b[i - 1] <= b[i]
             /\ \A j \in (b[i - 1] + 1)..b[i] : v[j] \in re[i].cls
             /\ re[i].rep = "1" => b[i] - b[i - 1] = 1
             /\ re[i].rep = "+" => b[i] - b[i - 1] >= 1

\* the text fields whose widget value is non-empty and outside the language
\* of the field's regex
InvalidFields(sch, w) ==
    {sch[i].campo : i \in
        {m \in DOMAIN sch :
            /\ sch[m].opciones.tipo = "texto"
            /\ "regex" \in DOMAIN sch[m].opciones
            /\ w[sch[m].campo].v # <<>>
            /\ ~InLanguage(sch[m].opciones.regex, w[sch[m].campo].v)}}

\* the k-th smallest element of a set of integers
Nth(S, k) == CHOOSE x \in S : Cardinality({y \in S : y < x}) = k - 1

Lowest(S) == CHOOSE x \in S : \A y \in S : x <= y

Highest(S) == CHOOSE x \in S : \A y \in S : x >= y

\* the comma-separated segments of t, trimmed, the blank ones left out,
\* read off the positions of the commas
Segmentos(t) ==
    LET n == Len(t)
        B == {0, n + 1} \cup {i \in 1..n : t[i] = ","}
        Body(k) == {i \in 1..n : Nth(B, k) < i /\ i < Nth(B, k + 1) /\ t[i] # " "}
        K == {k \in 1..(Cardinality(B) - 1) : Body(k) # {}}
    IN [m \in 1..Cardinality(K) |->
          SubSeq(t, Lowest(Body(Nth(K, m))), Highest(Body(Nth(K, m))))]

\* L without its entry at 0-based position i
SinEntrada(L, i) == [j \in 1..(Len(L) - 1) |-> IF j <= i THEN L[j] ELSE L[j + 1]]

(***************************************************************************)
(* C5.  After render_form on the generator the script constructed, every   *)
(* text field is in the Submission with the value entered, valid or not,   *)
(* and the ErrorSet has an entry for the field, keyed by its name, exactly *)
(* when the value is non-empty, the field has a regex and the value does   *)
(* not fully match it.                                                     *)
(***************************************************************************)
TextoRegistrado(p) ==
    \A i \in DOMAIN schema :
       schema[i].opciones.tipo = "texto" =>
          LET campo == schema[i].campo
          IN /\ campo \in DOMAIN data[p]
             /\ data[p][campo] = PyStr(widgets[p][campo].v)
             /\ campo \in DOMAIN errores[p] <=> campo \in InvalidFields(schema, widgets[p])
             /\ campo \in DOMAIN errores[p] =>
                   errores[p][campo] = <<"Formato invalido para", campo>>

C5_TextoValidado ==
    [][\A p \in procs : (pc[p] = "new" /\ pc'[p] = "form") => TextoRegistrado(p)']_vars

\* a value that starts like a match but does not fully match is stored and
\* reported; a value of a field without regex is not reported
C5_Witness ==
    \E p \in procs :
       /\ pc[p] = "form"
       /\ schema = EsquemaFormulario
       /\ widgets[p]["nombre"].v = <<"a", "1">>
       /\ widgets[p]["apodo"].v = <<"1">>
       /\ widgets[p]["codigo"].v = <<"1">>
       /\ data[p]["nombre"] = PyStr(<<"a", "1">>)
       /\ DOMAIN errores[p] = {"nombre"}

(***************************************************************************)
(* C7.  After render_form every list field holds the comma-separated       *)
(* segments of the text entered, trimmed, the empty ones dropped, in order *)
(* and with duplicates; "a, b,,c " gives ["a","b","c"]; a list field never *)
(* has an error entry.                                                     *)
(***************************************************************************)
C7_ListaSeparada ==
    \A p \in procs :
       pc[p] = "form" =>
          \A i \in DOMAIN schema :
             schema[i].opciones.tipo = "lista" =>
                LET campo == schema[i].campo
                    texto == widgets[p][campo].v
                IN /\ data[p][campo] = PyList(Segmentos(texto))
                   /\ campo \notin DOMAIN errores[p]
                   /\ texto = Ejemplo =>
                         data[p][campo] = PyList(<< <<"a">>, <<"b">>, <<"c">> >>)
                   /\ (\A j \in DOMAIN texto : texto[j] \in {",", " "}) =>
                         data[p][campo] = PyList(<<>>)

C7_Witness ==
    \E p \in procs :
       /\ pc[p] = "form"
       /\ schema = EsquemaLista
       /\ widgets[p]["tags"].v = Ejemplo
       /\ data[p]["tags"].v = << <<"a">>, <<"b">>, <<"c">> >>

(***************************************************************************)
(* C10.  After every render pass on a generator the ErrorSet has an entry  *)
(* for exactly the fields whose value is invalid in that pass.             *)
(***************************************************************************)
C10_ErroresReconstruidos ==
    \A p \in procs :
       pc[p] = "form" => DOMAIN errores[p] = InvalidFields(schema, widgets[p])

(***************************************************************************)
(* C1.  With the operations of one session (so one after another), on a    *)
(* stored log L that is a valid array or a missing file, guardar_historial *)
(* leaves a file whose read yields L with the Submission added at the end. *)
(***************************************************************************)
C1_AppendAlFinal ==
    [][\A p \in procs :
          (/\ procs = {p}
           /\ pc[p] = "guardar" /\ pc'[p] = "output"
           /\ file.st \in {"missing", "json"})
          => LET L == StoredLog(file)
                 L2 == StoredLog(file')
             IN /\ file'.st = "json"
                /\ Len(L2) = Len(L) + 1
                /\ L2[Len(L2)] = data[p]
                /\ \A i \in 1..Len(L) : L2[i] = L[i]]_vars

\* an append to a log that held a different Submission
C1_Witness ==
    \E p \in procs :
       /\ procs = {p}
       /\ pc[p] = "output"
       /\ "success_guardado" \in out[p]
       /\ Len(StoredLog(file)) = 2
       /\ StoredLog(file)[2] = data[p]
       /\ StoredLog(file)[1] # data[p]

(***************************************************************************)
(* C2.  eliminar_entrada_historial(i) checks i against the log it reads    *)
(* itself: with 0 <= i < len it goes on to remove exactly entry i (the     *)
(* others keep their order); otherwise, or without a file, it returns with *)
(* the file as it was (none is created).                                   *)
(***************************************************************************)
C2_EliminarPorIndice ==
    [][\A p \in procs :
          /\ (pc[p] = "eliminar_call" /\ pc'[p] # "eliminar_call" /\ file.st # "corrupt")
             => IF file.st = "json" /\ 0 <= index[p] /\ index[p] < Len(StoredLog(file))
                THEN /\ pc'[p] = "eliminar"
                     /\ historial'[p] = StoredLog(file)
                     /\ file' = file
                ELSE /\ pc'[p] = "idle"
                     /\ file' = file
                     /\ "exception" \notin out'[p]
                     /\ "rerun" \notin out'[p]
          /\ (procs = {p} /\ pc[p] = "eliminar" /\ pc'[p] # "eliminar")
             => /\ file'.st = "json"
                /\ Len(StoredLog(file')) = Len(StoredLog(file)) - 1
                /\ StoredLog(file') = SinEntrada(StoredLog(file), index[p])]_vars

\* a deletion that left one entry of two
C2_Witness ==
    \E p \in procs :
       /\ procs = {p}
       /\ pc[p] = "idle"
       /\ "rerun" \in out[p]
       /\ Len(StoredLog(file)) = 1

(***************************************************************************)
(* C3.  A history file that is not valid JSON is an empty history, with no *)
(* error, for the append (the file then holds the one Submission) and for  *)
(* the display (the "no history" message, no delete action).               *)
(***************************************************************************)
C3_CorruptoComoVacio ==
    [][\A p \in procs :
          file.st = "corrupt" =>
             /\ (pc[p] = "form" /\ pc'[p] # "form"
                 /\ click'[p].b = "save" /\ errores[p] = EmptyDict)
                => /\ pc'[p] = "guardar"
                   /\ historial'[p] = <<>>
                   /\ "exception" \notin out'[p]
             /\ (pc[p] = "guardar" /\ pc'[p] # "guardar")
                => /\ file'.st = "json"
                   /\ StoredLog(file') = <<data[p]>>
                   /\ "exception" \notin out'[p]
                   /\ "success_guardado" \in out'[p]
             /\ (pc[p] = "output" /\ pc'[p] # "output")
                => /\ pc'[p] = "idle"
                   /\ "info_no_historial" \in out'[p]
                   /\ "exception" \notin out'[p]
                   /\ "expanders" \notin out'[p]
                   /\ file' = file]_vars

\* on a corrupt file one session has shown "no history" and another has
\* read for its append
C3_Witness ==
    \E p, q \in procs :
       /\ file.st = "corrupt"
       /\ pc[p] = "idle"
       /\ "info_no_historial" \in out[p]
       /\ pc[q] = "guardar"

(***************************************************************************)
(* C4.  eliminar_entrada_historial on a history file that is not valid     *)
(* JSON is a no-op: no error, the file as it was.                          *)
(***************************************************************************)
C4_EliminarToleraCorrupto ==
    [][\A p \in procs :
          (pc[p] = "eliminar_call" /\ pc'[p] # "eliminar_call" /\ file.st = "corrupt")
          => /\ "exception" \notin out'[p]
             /\ pc'[p] = "idle"
             /\ file' = file]_vars

(***************************************************************************)
(* C6.  In a render pass a save, a download or a send happens only if the  *)
(* ErrorSet is empty after render_form; with errors the pass only lists    *)
(* them; either way the Submission holds the value of every field of       *)
(* recognised kind.                                                        *)
(***************************************************************************)
C6_SoloSiValido ==
    \A p \in procs :
       pc[p] \in {"form", "guardar", "output"} =>
          /\ (\/ pc[p] = "guardar"
              \/ posts[p] # <<>>
              \/ out[p] \cap {"success_guardado", "download", "success_json",
                              "success_enviado", "warning_codigo", "error_fallo",
                              "warning_url"} # {})
             => errores[p] = EmptyDict
          /\ (pc[p] = "output" /\ errores[p] # EmptyDict) => "error_errores" \in out[p]
          /\ DOMAIN data[p] = Reconocidos(schema)
          /\ \A campo \in Reconocidos(schema) :
                Opciones(schema, campo).tipo # "lista" =>
                   data[p][campo] = widgets[p][campo]

\* the save button clicked on a form with an invalid first field: nothing
\* is saved, the later field is collected
C6_Witness ==
    \E p \in procs :
       /\ pc[p] = "output"
       /\ schema = EsquemaApp
       /\ click[p].b = "save"
       /\ DOMAIN errores[p] = {"nombre"}
       /\ data[p]["activo"] = PyBool(TRUE)
       /\ data[p]["edad"] = PyInt(2)
       /\ "fecha" \notin DOMAIN data[p]
       /\ out[p] = {"warning_tipo", "error_errores"}

(***************************************************************************)
(* C8.  A send with a URL issues one POST of the Submission and reports    *)
(* success exactly on status 200, a warning on any other status, an error  *)
(* on a transport exception; nothing is raised; the Submission and the     *)
(* history file stay as they were.  Without a URL nothing is posted.       *)
(***************************************************************************)
C8_EnvioRemoto ==
    [][\A p \in procs :
          (pc[p] = "form" /\ pc'[p] # "form" /\ click'[p].b = "send"
           /\ errores[p] = EmptyDict)
          => /\ file' = file
             /\ data'[p] = data[p]
             /\ pc'[p] = "output"
             /\ "exception" \notin out'[p]
             /\ IF click'[p].url = <<>>
                THEN /\ posts'[p] = <<>>
                     /\ "warning_url" \in out'[p]
                     /\ out'[p] \cap {"success_enviado", "warning_codigo", "error_fallo"} = {}
                ELSE /\ Len(posts'[p]) = 1
                     /\ posts'[p][1].url = click'[p].url
                     /\ posts'[p][1].body = JsonDumpDict(data[p])
                     /\ "warning_url" \notin out'[p]
                     /\ LET r == posts'[p][1].resp
                        IN /\ "success_enviado" \in out'[p] <=> (~r.exc /\ r.status = 200)
                           /\ "warning_codigo" \in out'[p] <=> (~r.exc /\ r.status # 200)
                           /\ "error_fallo" \in out'[p] <=> r.exc]_vars

\* a POST answered 201 was reported as a warning
C8_Witness ==
    \E p \in procs :
       /\ pc[p] = "output"
       /\ posts[p] # <<>>
       /\ ~posts[p][1].resp.exc
       /\ posts[p][1].resp.status = 201
       /\ "warning_codigo" \in out[p]
       /\ "success_enviado" \notin out[p]

(***************************************************************************)
(* C9.  The read-modify-write of the history file is not synchronized: as  *)
(* long as the operations run one after another (never two sessions        *)
(* between their read and their write) the log a pending write is based on *)
(* is the stored log, so no completed append or deletion is undone; with   *)
(* two sessions interleaved an append is lost.                             *)
(***************************************************************************)
EnCurso(p) == pc[p] \in {"guardar", "eliminar"}

UnaALaVez == \A p, q \in procs : (EnCurso(p) /\ EnCurso(q)) => p = q

SinCopiaVieja == \A p \in procs : EnCurso(p) => historial[p] = StoredLog(file)

C9_SecuencialSinPerdida == []UnaALaVez => []SinCopiaVieja

\* two sessions have each completed an append in their current run, each
\* on an empty log and with a different Submission, and the file holds only
\* the later one
C9_Witness ==
    \E p, q \in procs :
       /\ p # q
       /\ pc[p] = "output" /\ "success_guardado" \in out[p]
       /\ pc[q] = "output" /\ "success_guardado" \in out[q]
       /\ data[p] # data[q]
       /\ historial[p] = <<data[p]>>
       /\ historial[q] = <<data[q]>>
       /\ StoredLog(file) = <<data[q]>>

====
